---- MODULE Spec2Model ----
(***************************************************************************)
(* State-machine model of the applovin_report fetch engine:                *)
(*   RevenueReport.get_report            (single-shot fetch, fixed delay)  *)
(*   RevenueReport.get_report_batch      (generator, one page per pull)    *)
(*   UserAdRevenueReport.get_report      (session with a urllib3 Retry)    *)
(* The remote service is the environment: every HTTP call draws its        *)
(* outcome (a status code with a body, or a transport error) from a small  *)
(* set.  A caller runs get_report and may then iterate get_report_batch    *)
(* for the same query, or runs UserAdRevenueReport.get_report.             *)
(***************************************************************************)
EXTENDS Integers, Sequences, FiniteSets, TLC

\* ---- bounds of the model ----
MaxRows == 5
MaxBatch == 2
MaxRetries == 3
MaxReq == 7
MaxPulls == 8

\* ---- outcomes of one HTTP call ----
OK == 200
BadRequest == 400
NotFound == 404
Unavailable == 503
TransportError == -1

\* answers the report endpoints give in the model; RevenueReport only tells
\* 200 from the rest, so two distinct failure codes stand for all of them
ReportStatuses == {OK, BadRequest, Unavailable}
UserStatuses == {OK, BadRequest, NotFound, Unavailable}

\* values of the limit argument: a cap of one row, and one no dataset exceeds
LimitChoices == {1, MaxRows}

\* STATUS_RETRIES and the status_retries argument of UserAdRevenueReport
StatusRetriesChoices == {{Unavailable}, {NotFound, Unavailable}}

VARIABLES
    call,            \* the function of the package that is running
    pc,              \* its position
    data,            \* number of rows the service holds for the query
    max_retries,     \* argument max_retries
    limit,           \* argument limit of get_report
    batch_size,      \* argument batch_size of get_report_batch
    i,               \* loop variable of the retry loop
    offset,          \* local offset of get_report_batch
    has_next_batch,  \* local has_next_batch of get_report_batch
    response,        \* local response (the last one received)
    result,          \* table returned by get_report
    error,           \* exception raised to the caller
    pages,           \* tables yielded by get_report_batch, in order
    pulls,           \* number of next() calls made on the generator
    attempts,        \* outcomes of the HTTP calls of the current logical request
    sleeps,          \* delays taken during the current logical request
    reqLog,          \* <<offset, limit>> of every HTTP call of the batch iteration
    allOK,           \* every HTTP call of the running function was answered 200
    honest,          \* every 200 answer carried rows[offset : offset + limit]
    status_retries,  \* Retry.status_forcelist of the session
    retriesLeft,     \* Retry.total of the request in flight
    csvFollowed,     \* the secondary CSV URL has been fetched
    api_key,         \* self.api_key of the instance
    kwargs,          \* the extra filters (**kwargs) of the call
    params,          \* the params dict of the last HTTP call
    iters            \* the generators of a caller that runs two iterations

vars == <<call, pc, data, max_retries, limit, batch_size, i, offset,
          has_next_batch, response, result, error, pages, pulls, attempts,
          sleeps, reqLog, allOK, honest, status_retries, retriesLeft,
          csvFollowed, api_key, kwargs, params, iters>>

\* ---- values ----
\* values of the request parameters (codes for the strings the code sends)
InstanceKey == 1
OtherKey == 2
StartDate == 20230514
EndDate == 20230516
OtherDate == 20230101
UserDate == 20230515
JoinedColumns == 15
FormatJson == 0
PackageFilter == 7
Aggregated == 1
Android == 1
Application == 7

\* a dict without keys
EmptyDict == [k \in {} |-> 0]

\* {**defaults, **extra}: the keys of both, the value of extra where both
\* have the key (line 59-67, 117-126; line 71-77 of the user report)
Merge(defaults, extra) ==
    [k \in (DOMAIN defaults) \cup (DOMAIN extra) |->
        IF k \in DOMAIN extra THEN extra[k] ELSE defaults[k]]

\* extra filters a caller passes: none, another api_key, another start date,
\* a package filter, an offset
KwargsChoices ==
    { EmptyDict,
      [api_key |-> OtherKey],
      [start |-> OtherDate],
      [filter_package_name |-> PackageFilter],
      [offset |-> 1] }
NoResponse == [status |-> 0, results |-> <<>>, hasUrl |-> FALSE]
NoError == [kind |-> "none", status |-> 0, offset |-> -1, batch_size |-> -1]
NoTable == <<-1>>

Min(a, b) == IF a < b THEN a ELSE b
Max(a, b) == IF a > b THEN a ELSE b

\* rows off+1 .. off+k of the report (rows are numbered from 1)
RowsFrom(off, k) == [j \in 1..k |-> off + j]

\* what the service holds at rows[off : off + lim]
SliceLen(off, lim) == Max(0, Min(lim, data - off))
Slice(off, lim) == RowsFrom(off, SliceLen(off, lim))

\* pd.DataFrame(results): one table row per element, order kept
DataFrame(results) == results

\* the rows of all yielded tables, in order
RECURSIVE Concat(_)
Concat(ps) == IF ps = <<>> THEN <<>> ELSE Head(ps) \o Concat(Tail(ps))

\* ---- Init ----
InitCommon ==
    /\ data \in 0..MaxRows
    /\ max_retries \in 0..MaxRetries
    /\ i = 0
    /\ offset = 0
    /\ has_next_batch = TRUE
    /\ response = NoResponse
    /\ result = NoTable
    /\ error = NoError
    /\ pages = <<>>
    /\ pulls = 0
    /\ attempts = <<>>
    /\ sleeps = 0
    /\ reqLog = <<>>
    /\ allOK = TRUE
    /\ honest = TRUE
    /\ csvFollowed = FALSE
    /\ batch_size = 0
    /\ api_key = InstanceKey
    /\ params = EmptyDict

InitGetReport ==
    /\ call = "get_report"
    /\ pc = "request"
    /\ limit \in LimitChoices
    /\ status_retries = {}
    /\ retriesLeft = 0

InitUser ==
    /\ call = "user_get_report"
    /\ pc = "request"
    /\ limit = 0
    /\ status_retries \in StatusRetriesChoices
    /\ retriesLeft = max_retries

Init ==
    /\ InitCommon
    /\ kwargs = EmptyDict
    /\ iters = <<>>
    /\ (InitGetReport \/ InitUser)

\* the same calls made with extra filters
InitParams ==
    /\ InitCommon
    /\ data = 2 /\ max_retries <= 1
    /\ kwargs \in KwargsChoices
    /\ iters = <<>>
    /\ (InitGetReport \/ InitUser)

\* ================= RevenueReport.get_report =================

\* (variant: range(max_retries + 2), one attempt too many)
LoopContinuesOneMore(k) == k + 1 < max_retries + 2

\* (variant: range(max_retries), the first try counted as a retry)
LoopContinuesRetriesOnly(k) == k + 1 < max_retries

\* range(max_retries + 1): is there another iteration after index k
LoopContinues(k) == k + 1 < max_retries + 1

\* line 59-67: the params of get_report
GetReportParams ==
    Merge([api_key |-> api_key, start |-> StartDate, end |-> EndDate,
           columns |-> JoinedColumns, format |-> FormatJson,
           limit |-> limit], kwargs)

\* the row the service starts from: the offset param, row 0 without one
SentOffset(ps) == IF "offset" \in DOMAIN ps THEN ps["offset"] ELSE 0

\* line 70-76: one iteration of the loop up to the sleep
GetReportRequest ==
    /\ call = "get_report" /\ pc = "request"
    /\ UNCHANGED <<api_key, kwargs, iters>>
    /\ params' = GetReportParams
    /\ \E out \in ReportStatuses \cup {TransportError} :
         /\ attempts' = Append(attempts, out)
         /\ allOK' = (allOK /\ out = OK)
         /\ IF out = TransportError
              THEN \* requests.get raises; nothing catches it
                   /\ error' = [NoError EXCEPT !.kind = "ConnectionError"]
                   /\ pc' = "failed"
                   /\ UNCHANGED <<response, result>>
              ELSE IF out = OK
              THEN \* without an offset the service answers from row 0
                   /\ response' = [status |-> OK,
                                   results |-> Slice(SentOffset(params'),
                                                     params'["limit"]),
                                   hasUrl |-> FALSE]
                   /\ result' = DataFrame(response'.results)
                   /\ pc' = "returned"
                   /\ UNCHANGED error
              ELSE /\ response' = [status |-> out, results |-> <<>>,
                                   hasUrl |-> FALSE]
                   /\ pc' = "sleep"
                   /\ UNCHANGED <<result, error>>
    /\ UNCHANGED <<call, data, max_retries, limit, batch_size, i, offset,
                   has_next_batch, pages, pulls, sleeps, reqLog, honest,
                   status_retries, retriesLeft, csvFollowed>>

\* line 76 and the loop header: time.sleep(retry_interval), next i
GetReportSleep ==
    /\ call = "get_report" /\ pc = "sleep"
    /\ UNCHANGED <<api_key, kwargs, iters, params>>
    /\ sleeps' = sleeps + 1
    /\ IF LoopContinues(i)
         THEN i' = i + 1 /\ pc' = "request"
         ELSE i' = i /\ pc' = "raise"
    /\ UNCHANGED <<call, data, max_retries, limit, batch_size, offset,
                   has_next_batch, response, result, error, pages, pulls,
                   attempts, reqLog, allOK, honest, status_retries,
                   retriesLeft, csvFollowed>>

\* (variant: the status of the first attempt is kept and reported)
ReportedFirstStatus == IF attempts = <<>> THEN 0 ELSE attempts[1]

\* the status the exception of line 79 / 138 reports
ReportedStatus == response.status

\* line 78-79
GetReportRaise ==
    /\ call = "get_report" /\ pc = "raise"
    /\ UNCHANGED <<api_key, kwargs, iters, params>>
    /\ error' = [NoError EXCEPT !.kind = "Exception", !.status = ReportedStatus]
    /\ pc' = "failed"
    /\ UNCHANGED <<call, data, max_retries, limit, batch_size, i, offset,
                   has_next_batch, response, result, pages, pulls, attempts,
                   sleeps, reqLog, allOK, honest, status_retries, retriesLeft,
                   csvFollowed>>

\* ================= RevenueReport.get_report_batch =================

\* the caller, having a table from get_report, calls get_report_batch for
\* the same query: a generator object is created and none of its body runs
CallBatch ==
    /\ call = "get_report" /\ pc = "returned"
    /\ UNCHANGED <<api_key, kwargs, iters, params>>
    /\ call' = "get_report_batch"
    /\ pc' = "created"
    /\ batch_size' \in 0..MaxBatch
    /\ i' = 0
    /\ response' = NoResponse
    /\ attempts' = <<>>
    /\ sleeps' = 0
    /\ allOK' = TRUE
    /\ UNCHANGED <<data, max_retries, limit, offset, has_next_batch, result,
                   error, pages, pulls, reqLog, honest, status_retries,
                   retriesLeft, csvFollowed>>

\* (variant: one retry counter shared by all pages of the iteration)
EnterPageSharedCounter ==
    IF has_next_batch'
      THEN /\ pc' = "request"
           /\ i' = i
           /\ response' = NoResponse
           /\ attempts' = <<>>
           /\ sleeps' = 0
      ELSE /\ pc' = "done"
           /\ UNCHANGED <<i, response, attempts, sleeps>>

\* line 116, 128-129: the loop test and the start of a page's retry loop
EnterPage ==
    IF has_next_batch'
      THEN /\ pc' = "request"
           /\ i' = 0
           /\ response' = NoResponse
           /\ attempts' = <<>>
           /\ sleeps' = 0
      ELSE /\ pc' = "done"
           /\ UNCHANGED <<i, response, attempts, sleeps>>

\* first next(): lines 110-116 run
BatchFirstPull ==
    /\ call = "get_report_batch" /\ pc = "created"
    /\ UNCHANGED <<api_key, kwargs, iters, params>>
    /\ pulls < MaxPulls
    /\ pulls' = pulls + 1
    /\ offset' = 0
    /\ has_next_batch' = TRUE
    /\ EnterPage
    /\ UNCHANGED <<call, data, max_retries, limit, batch_size, result, error,
                   pages, reqLog, allOK, honest, status_retries, retriesLeft,
                   csvFollowed>>

\* next() on the generator suspended at the yield of line 146
BatchResume ==
    /\ call = "get_report_batch" /\ pc = "yielded"
    /\ UNCHANGED <<api_key, kwargs, iters, params>>
    /\ pulls < MaxPulls
    /\ pulls' = pulls + 1
    /\ UNCHANGED <<offset, has_next_batch>>
    /\ EnterPage
    /\ UNCHANGED <<call, data, max_retries, limit, batch_size, result, error,
                   pages, reqLog, allOK, honest, status_retries, retriesLeft,
                   csvFollowed>>

\* (variant: a pull on the ended iteration starts it again from offset 0)
BatchPullEndedRestarts ==
    /\ call = "get_report_batch" /\ pc \in {"done", "failed"}
    /\ UNCHANGED <<api_key, kwargs, iters, params>>
    /\ pulls < MaxPulls
    /\ pulls' = pulls + 1
    /\ pc' = "request"
    /\ offset' = 0
    /\ has_next_batch' = TRUE
    /\ i' = 0
    /\ response' = NoResponse
    /\ attempts' = <<>>
    /\ sleeps' = 0
    /\ UNCHANGED <<call, data, max_retries, limit, batch_size, result, error,
                   pages, reqLog, allOK, honest, status_retries, retriesLeft,
                   csvFollowed>>

\* next() on a generator that has returned or raised: StopIteration
BatchPullEnded ==
    /\ call = "get_report_batch" /\ pc \in {"done", "failed"}
    /\ UNCHANGED <<api_key, kwargs, iters, params>>
    /\ pulls < MaxPulls
    /\ pulls' = pulls + 1
    /\ UNCHANGED <<call, pc, data, max_retries, limit, batch_size, i, offset,
                   has_next_batch, response, result, error, pages, attempts,
                   sleeps, reqLog, allOK, honest, status_retries, retriesLeft,
                   csvFollowed>>

\* (variant: the offset is left out of the params)
PageParamsNoOffset == <<0, batch_size>>

\* line 117-126: the params of a page of get_report_batch
BatchParams ==
    Merge([api_key |-> api_key, start |-> StartDate, end |-> EndDate,
           columns |-> JoinedColumns, format |-> FormatJson,
           offset |-> offset, limit |-> batch_size], kwargs)

\* the params of line 117-126 that locate the page
PageParams == <<BatchParams["offset"], BatchParams["limit"]>>

\* line 130-132: one HTTP call of a page
BatchRequest ==
    /\ call = "get_report_batch" /\ pc = "request"
    /\ UNCHANGED <<api_key, kwargs, iters>>
    /\ Len(reqLog) < MaxReq
    /\ reqLog' = Append(reqLog, PageParams)
    /\ params' = BatchParams
    /\ \E out \in ReportStatuses \cup {TransportError} :
       LET sentOffset == PageParams[1]
           sentLimit == PageParams[2]
       IN
         /\ attempts' = Append(attempts, out)
         /\ allOK' = (allOK /\ out = OK)
         /\ IF out = TransportError
              THEN /\ error' = [NoError EXCEPT !.kind = "ConnectionError"]
                   /\ pc' = "failed"
                   /\ UNCHANGED <<response, honest>>
              ELSE IF out = OK
              THEN \* the body holds the slice asked for, or any other
                   \* number of rows up to one more than the limit sent
                   \E k \in 0..(sentLimit + 1) :
                     /\ response' = [status |-> OK,
                                     results |-> RowsFrom(sentOffset, k),
                                     hasUrl |-> FALSE]
                     /\ honest' = (honest
                                    /\ k = SliceLen(sentOffset, sentLimit))
                     /\ pc' = "check"
                     /\ UNCHANGED error
              ELSE /\ response' = [status |-> out, results |-> <<>>,
                                   hasUrl |-> FALSE]
                   /\ pc' = "sleep"
                   /\ UNCHANGED <<error, honest>>
    /\ UNCHANGED <<call, data, max_retries, limit, batch_size, i, offset,
                   has_next_batch, result, pages, pulls, sleeps,
                   status_retries, retriesLeft, csvFollowed>>

\* line 133-134 and the loop header
BatchSleep ==
    /\ call = "get_report_batch" /\ pc = "sleep"
    /\ UNCHANGED <<api_key, kwargs, iters, params>>
    /\ sleeps' = sleeps + 1
    /\ IF LoopContinues(i)
         THEN i' = i + 1 /\ pc' = "request"
         ELSE i' = i /\ pc' = "check"
    /\ UNCHANGED <<call, data, max_retries, limit, batch_size, offset,
                   has_next_batch, response, result, error, pages, pulls,
                   attempts, reqLog, allOK, honest, status_retries,
                   retriesLeft, csvFollowed>>

\* (variant: the iteration goes on until the consumer stops it)
HasNextBatchAlways(results) == Len(results) >= 0

\* (variant: a page that is exactly full ends the iteration)
HasNextBatchOverfull(results) == Len(results) > batch_size

\* line 144
HasNextBatch(results) == Len(results) = batch_size

\* (variant: the offset advances by two pages)
NextOffsetSkipsPage == offset + 2 * batch_size

\* (variant: the offset advances by one row)
NextOffsetByOne == offset + 1

\* line 145
NextOffset == offset + batch_size

\* the offset the exception of line 137-141 reports
ReportedOffset == offset

\* line 135-146: raise, or yield the page
BatchCheck ==
    /\ call = "get_report_batch" /\ pc = "check"
    /\ UNCHANGED <<api_key, kwargs, iters, params>>
    /\ IF response.status # OK
         THEN /\ error' = [kind |-> "Exception", status |-> ReportedStatus,
                           offset |-> ReportedOffset,
                           batch_size |-> batch_size]
              /\ pc' = "failed"
              /\ UNCHANGED <<has_next_batch, offset, pages>>
         ELSE /\ has_next_batch' = HasNextBatch(response.results)
              /\ offset' = NextOffset
              /\ pages' = Append(pages, DataFrame(response.results))
              /\ pc' = "yielded"
              /\ UNCHANGED error
    /\ UNCHANGED <<call, data, max_retries, limit, batch_size, i, response,
                   result, pulls, attempts, sleeps, reqLog, allOK, honest,
                   status_retries, retriesLeft, csvFollowed>>

\* ================= UserAdRevenueReport.get_report =================

\* (variant: every error status asks for another attempt)
IsRetryAnyError(out) == out = TransportError \/ out >= BadRequest

\* Retry(total, status_forcelist) mounted on the session (line 40-41): a
\* transport error or a status of the forcelist asks for another attempt
IsRetry(out) == out = TransportError \/ out \in status_retries

\* line 71-84: the params of the user report, for platform "android"
UserParams ==
    LET merged == Merge([api_key |-> api_key, date |-> UserDate,
                         aggregated |-> Aggregated, platform |-> Android],
                        kwargs)
    IN [k \in (DOMAIN merged) \cup {"application"} |->
           IF k = "application" THEN Application ELSE merged[k]]

\* line 87: session.get; the adapter repeats the call while the Retry allows
UserRequest ==
    /\ call = "user_get_report" /\ pc = "request"
    /\ UNCHANGED <<api_key, kwargs, iters>>
    /\ params' = UserParams
    /\ \E out \in UserStatuses \cup {TransportError} :
         /\ attempts' = Append(attempts, out)
         /\ allOK' = (allOK /\ out = OK)
         /\ IF IsRetry(out)
              THEN IF retriesLeft > 0
                     THEN /\ retriesLeft' = retriesLeft - 1
                          /\ pc' = "backoff"
                          /\ UNCHANGED <<response, error>>
                     ELSE \* the Retry is exhausted: session.get raises
                          /\ error' = [NoError EXCEPT
                                 !.kind = IF out = TransportError
                                            THEN "ConnectionError"
                                            ELSE "RetryError",
                                 !.status = IF out = TransportError
                                              THEN 0 ELSE out]
                          /\ pc' = "failed"
                          /\ UNCHANGED <<response, retriesLeft>>
              ELSE \E url \in BOOLEAN :
                     /\ response' = [status |-> out, results |-> <<>>,
                                     hasUrl |-> url]
                     /\ pc' = "handle"
                     /\ UNCHANGED <<error, retriesLeft>>
    /\ UNCHANGED <<call, data, max_retries, limit, batch_size, i, offset,
                   has_next_batch, result, pages, pulls, sleeps, reqLog,
                   honest, status_retries, csvFollowed>>

\* the backoff sleep the Retry takes before the next attempt
UserBackoff ==
    /\ call = "user_get_report" /\ pc = "backoff"
    /\ UNCHANGED <<api_key, kwargs, iters, params>>
    /\ sleeps' = sleeps + 1
    /\ pc' = "request"
    /\ UNCHANGED <<call, data, max_retries, limit, batch_size, i, offset,
                   has_next_batch, response, result, error, pages, pulls,
                   attempts, reqLog, allOK, honest, status_retries,
                   retriesLeft, csvFollowed>>

\* (variant: the empty-result rule keyed on another status)
IsNoDataBadRequest(resp) == resp.status = BadRequest

\* line 88: the status that means "no data"
IsNoData(resp) == resp.status = NotFound

\* line 88-94
UserHandle ==
    /\ call = "user_get_report" /\ pc = "handle"
    /\ UNCHANGED <<api_key, kwargs, iters, params>>
    /\ IF IsNoData(response)
         THEN /\ result' = DataFrame(<<>>)
              /\ pc' = "returned"
              /\ UNCHANGED <<error, csvFollowed>>
         ELSE IF response.hasUrl
         THEN \* pd.read_csv fetches the URL the body names
              /\ csvFollowed' = TRUE
              /\ \E fetched \in BOOLEAN :
                   IF fetched
                     THEN /\ result' = DataFrame(RowsFrom(0, data))
                          /\ pc' = "returned"
                          /\ UNCHANGED error
                     ELSE /\ error' = [NoError EXCEPT !.kind = "URLError"]
                          /\ pc' = "failed"
                          /\ UNCHANGED result
         ELSE \* response.json()['ad_revenue_report_url'] raises
              /\ error' = [NoError EXCEPT !.kind = "KeyError"]
              /\ pc' = "failed"
              /\ UNCHANGED <<result, csvFollowed>>
    /\ UNCHANGED <<call, data, max_retries, limit, batch_size, i, offset,
                   has_next_batch, response, pages, pulls, attempts, sleeps,
                   reqLog, allOK, honest, status_retries, retriesLeft>>

Next ==
    \/ GetReportRequest \/ GetReportSleep \/ GetReportRaise
    \/ CallBatch
    \/ BatchFirstPull \/ BatchResume \/ BatchPullEnded
    \/ BatchRequest \/ BatchSleep \/ BatchCheck
    \/ UserRequest \/ UserBackoff \/ UserHandle

\* ============ two iterations of get_report_batch, interleaved ============

\* the variables of the single calls
callVars == <<call, pc, data, max_retries, limit, batch_size, i, offset,
              has_next_batch, response, result, error, pages, pulls,
              attempts, sleeps, reqLog, allOK, honest, status_retries,
              retriesLeft, csvFollowed, api_key, kwargs, params>>

\* the frame of a generator just created by get_report_batch(batch_size = b)
NewIter(b) ==
    [pc |-> "created", batch_size |-> b, offset |-> 0,
     has_next_batch |-> TRUE, i |-> 0, status |-> 0, results |-> <<>>,
     pages |-> <<>>, reqs |-> <<>>, keySent |-> 0]

\* a caller holding one RevenueReport creates two generators from it
InitTwo ==
    /\ InitCommon
    /\ data = 3 /\ max_retries = 1
    /\ kwargs = EmptyDict
    /\ call = "two_iterations"
    /\ pc = "created"
    /\ limit = 0
    /\ status_retries = {}
    /\ retriesLeft = 0
    /\ iters \in [1..2 -> {NewIter(b) : b \in 1..MaxBatch}]

\* next() on generator g: line 114-116 on the first pull, the loop test of
\* line 116 on a pull after a yield
IterPull(g) ==
    /\ call = "two_iterations"
    /\ iters[g].pc \in {"created", "yielded"}
    /\ LET it == iters[g]
           more == IF it.pc = "created" THEN TRUE ELSE it.has_next_batch
       IN iters' = [iters EXCEPT ![g] =
             IF more
               THEN [it EXCEPT !.pc = "request", !.i = 0, !.status = 0,
                               !.results = <<>>,
                               !.offset = IF it.pc = "created"
                                            THEN 0 ELSE it.offset,
                               !.has_next_batch = TRUE]
               ELSE [it EXCEPT !.pc = "done"]]
    /\ UNCHANGED callVars

\* line 117-132 for generator g: params from its own offset and the
\* instance's api key, one HTTP call
IterRequest(g) ==
    /\ call = "two_iterations"
    /\ iters[g].pc = "request"
    /\ Len(iters[g].reqs) < MaxReq
    /\ LET it == iters[g]
           sent == [it EXCEPT !.reqs = Append(it.reqs,
                                              <<it.offset, it.batch_size>>),
                              !.keySent = api_key]
       IN \E out \in {OK, Unavailable, TransportError} :
            iters' = [iters EXCEPT ![g] =
              IF out = TransportError
                THEN [sent EXCEPT !.pc = "failed"]
              ELSE IF out = OK
                THEN [sent EXCEPT !.pc = "check", !.status = OK,
                         !.results = Slice(it.offset, it.batch_size)]
              ELSE [sent EXCEPT !.pc = "sleep", !.status = out]]
    /\ UNCHANGED callVars

\* line 133-134 and the loop header for generator g
IterSleep(g) ==
    /\ call = "two_iterations"
    /\ iters[g].pc = "sleep"
    /\ iters' = [iters EXCEPT ![g] =
          IF LoopContinues(iters[g].i)
            THEN [iters[g] EXCEPT !.i = iters[g].i + 1, !.pc = "request"]
            ELSE [iters[g] EXCEPT !.pc = "check"]]
    /\ UNCHANGED callVars

\* (variant: the offset is kept on the instance and shared by its generators)
IterNextOffsetShared(g) == iters[3 - g].offset + iters[g].batch_size

\* line 145 for generator g
IterNextOffset(g) == iters[g].offset + iters[g].batch_size

\* line 135-146 for generator g
IterCheck(g) ==
    /\ call = "two_iterations"
    /\ iters[g].pc = "check"
    /\ LET it == iters[g]
       IN iters' = [iters EXCEPT ![g] =
            IF it.status # OK
              THEN [it EXCEPT !.pc = "failed"]
              ELSE [it EXCEPT
                      !.has_next_batch = (Len(it.results) = it.batch_size),
                      !.offset = IterNextOffset(g),
                      !.pages = Append(it.pages, DataFrame(it.results)),
                      !.pc = "yielded"]]
    /\ UNCHANGED callVars

NextTwo ==
    \E g \in 1..2 :
        IterPull(g) \/ IterRequest(g) \/ IterSleep(g) \/ IterCheck(g)

\* ================= properties =================

InRevenueReport == call \in {"get_report", "get_report_batch"}
InBatch == call = "get_report_batch"
InUser == call = "user_get_report"

\* every HTTP call of the current logical request was answered with status s
AllAnswered(s) ==
    /\ attempts # <<>>
    /\ \A j \in 1..Len(attempts) : attempts[j] = s

\* every HTTP call of the current logical request got a non-200 status
AllFailureStatuses ==
    /\ attempts # <<>>
    /\ \A j \in 1..Len(attempts) : attempts[j] \in ReportStatuses \ {OK}

\* C1: when every request of a logical request (get_report, or one page of
\* get_report_batch) is answered 503, exactly max_retries + 1 requests are
\* issued and then the call fails: it never stops earlier, never succeeds,
\* and never issues a further request.
C1_ExactlyNPlusOneAttempts ==
    (InRevenueReport /\ AllAnswered(Unavailable)) =>
        /\ Len(attempts) <= max_retries + 1
        /\ pc \in {"sleep", "request", "raise", "check", "failed"}
        /\ pc \in {"raise", "check", "failed"} => Len(attempts) = max_retries + 1
        /\ pc = "request" => Len(attempts) < max_retries + 1
        /\ pc = "failed" => error.kind = "Exception"

C1_Witness ==
    /\ InBatch /\ pc = "failed" /\ AllAnswered(Unavailable)
    /\ max_retries = 3 /\ Len(attempts) = 4
    /\ Len(pages) = 1

\* C2: with a page size >= 1, a dataset within the single-shot limit and a
\* service that always answers 200 with rows[offset : offset + limit], the
\* rows of the drained pages, concatenated in order, are the rows get_report
\* returned for the same query.
C2_PagesEqualSingleShot ==
    (InBatch /\ pc = "done" /\ allOK /\ honest /\ batch_size >= 1
       /\ data <= limit)
        => Concat(pages) = result

C2_Witness ==
    /\ InBatch /\ pc = "done" /\ allOK /\ honest
    /\ batch_size = 2 /\ data = 5 /\ limit >= data
    /\ Len(pages) = 3 /\ Len(result) = 5

\* a page with fewer rows than the page size has been yielded
ShortPageYielded ==
    /\ InBatch
    /\ \E j \in 1..Len(pages) : Len(pages[j]) < batch_size

\* C3: a successfully fetched page with fewer rows than the page size is
\* yielded, and once it has been yielded no page and no HTTP request follows,
\* however often the consumer pulls: the iteration only goes on to its end.
C3_ShortPageIsLast ==
    [][ /\ (InBatch /\ pc = "check" /\ response.status = OK
              /\ Len(response.results) < batch_size)
           => (pc' = "yielded"
               /\ pages' = Append(pages, DataFrame(response.results)))
        /\ ShortPageYielded
           => (reqLog' = reqLog /\ pages' = pages /\ error' = error
               /\ pc' \in {"yielded", "done"}) ]_vars

C3_Witness ==
    /\ ShortPageYielded /\ pc = "done"
    /\ Len(pages) = 2 /\ Len(pages[2]) = 1 /\ batch_size = 2
    /\ pulls >= Len(pages) + 3

\* the last yielded page has exactly page-size rows and the generator is
\* suspended at its yield
FullPageYielded ==
    /\ InBatch /\ pc = "yielded"
    /\ Len(pages[Len(pages)]) = batch_size

\* C4: when the consumer pulls after a page of exactly page-size rows, the
\* iteration does not end: it goes to the HTTP call of a new page, whose
\* offset is the previous request's offset plus the page size, and the call
\* it issues next carries that offset and the page size.
C4_FullPageContinues ==
    [][ /\ (FullPageYielded /\ pulls' # pulls)
           => (pc' = "request"
               /\ offset' = reqLog[Len(reqLog)][1] + batch_size)
        /\ (InBatch /\ reqLog' # reqLog /\ pages # <<>>
              /\ Len(pages[Len(pages)]) = batch_size /\ Len(attempts) = 0)
           => reqLog' = Append(reqLog,
                  <<reqLog[Len(reqLog)][1] + batch_size, batch_size>>) ]_vars

C4_Witness ==
    /\ InBatch /\ pc = "check" /\ batch_size = 2
    /\ Len(pages) = 1 /\ Len(pages[1]) = 2
    /\ reqLog = << <<0, 2>>, <<2, 2>> >>

\* the requests a drained iteration makes over n rows with page size p
ExpectedRequests(n, p) == [j \in 1..((n \div p) + 1) |-> <<(j - 1) * p, p>>]

\* C5: with n rows, page size p >= 1 and a service that always answers 200
\* with the requested slice, the requests made are, in order, a prefix of
\* offsets 0, p, 2p, ..., floor(n/p)*p, each with limit p; a drained
\* iteration has made all of them and yielded floor(n/p) + 1 pages: full
\* pages followed by the n mod p remaining rows (an empty page when p
\* divides n).
C5_OffsetsAndPageCount ==
    (InBatch /\ allOK /\ honest /\ batch_size >= 1) =>
        /\ Len(reqLog) <= (data \div batch_size) + 1
        /\ \A j \in 1..Len(reqLog) :
              reqLog[j] = ExpectedRequests(data, batch_size)[j]
        /\ pc = "done" =>
              /\ reqLog = ExpectedRequests(data, batch_size)
              /\ Len(pages) = (data \div batch_size) + 1
              /\ \A j \in 1..Len(pages) :
                    Len(pages[j]) = IF j = Len(pages)
                                      THEN data % batch_size
                                      ELSE batch_size

C5_Witness ==
    /\ InBatch /\ pc = "done" /\ allOK /\ honest
    /\ data = 5 /\ batch_size = 2
    /\ reqLog = << <<0, 2>>, <<2, 2>>, <<4, 2>> >>
    /\ pages = << <<1, 2>>, <<3, 4>>, <<5>> >>

\* C6: when the response session.get hands to UserAdRevenueReport.get_report
\* has status 404, the call returns a table of zero rows, raises nothing and
\* does not fetch a CSV URL, whatever the body holds.
C6_NotFoundGivesEmptyTable ==
    (InUser /\ response.status = NotFound /\ pc # "handle") =>
        /\ pc = "returned"
        /\ result = <<>>
        /\ error = NoError
        /\ ~csvFollowed

C6_Witness ==
    /\ InUser /\ pc = "returned" /\ response.status = NotFound
    /\ response.hasUrl /\ result = <<>>

\* C7 (as stated): a logical request whose first answer is 400 ends there:
\* exactly one HTTP call is made for it, with zero additional attempts, in
\* get_report, in a page of get_report_batch and in
\* UserAdRevenueReport.get_report.
C7_BadRequestFailsAtOnce ==
    (attempts # <<>> /\ attempts[1] = BadRequest) => Len(attempts) = 1

\* C8 (as stated): a transport error reaches the caller of get_report or of
\* a page of get_report_batch only after max_retries + 1 attempts.
C8_TransportErrorIsRetried ==
    (InRevenueReport /\ pc = "failed" /\ error.kind = "ConnectionError")
        => Len(attempts) = max_retries + 1

\* C9 (as stated): when a page has used all its max_retries + 1 attempts
\* without a 200, the failure raised carries the offset of that page and the
\* page size, and no request was made at a later offset.
C9_PageFailureCarriesOffset ==
    (InBatch /\ pc = "failed" /\ Len(attempts) = max_retries + 1) =>
        /\ error.offset = reqLog[Len(reqLog)][1]
        /\ error.batch_size = batch_size
        /\ \A j \in 1..Len(reqLog) : reqLog[j][1] <= error.offset

\* the part of C9 the code keeps: a page that failed after max_retries + 1
\* answers, the last of them a non-200 status, raises an exception with that
\* page's offset and the page size, and no later offset was requested
PageStatusFailureCarriesOffset ==
    (InBatch /\ pc = "failed" /\ error.kind = "Exception") =>
        /\ Len(attempts) = max_retries + 1
        /\ error.offset = reqLog[Len(reqLog)][1]
        /\ error.batch_size = batch_size
        /\ \A j \in 1..Len(reqLog) : reqLog[j][1] <= error.offset

\* C10: when get_report, or a page of get_report_batch, has failed after
\* attempts that were all answered with failure statuses, it made
\* max_retries + 1 attempts and the exception reports the status of the last
\* one, whatever the statuses before it.
C10_LastStatusReported ==
    (InRevenueReport /\ pc = "failed" /\ AllFailureStatuses) =>
        /\ error.kind = "Exception"
        /\ Len(attempts) = max_retries + 1
        /\ error.status = attempts[Len(attempts)]

C10_Witness ==
    /\ call = "get_report" /\ pc = "failed"
    /\ max_retries = 3
    /\ attempts = <<BadRequest, Unavailable, BadRequest, Unavailable>>
    /\ error.status = Unavailable

\* C11: when get_report returns, the 200 it returns on is its last HTTP call,
\* at attempt index i <= max_retries, after i failed attempts and i delays:
\* i + 1 calls in all, none after the 200, and the table returned is the one
\* built from that response; nothing is raised.
C11_ReturnsOnFirstSuccess ==
    (call = "get_report" /\ pc = "returned") =>
        /\ i <= max_retries
        /\ Len(attempts) = i + 1
        /\ attempts[Len(attempts)] = OK
        /\ \A j \in 1..(Len(attempts) - 1) : attempts[j] \in ReportStatuses \ {OK}
        /\ sleeps = i
        /\ response.status = OK
        /\ result = DataFrame(response.results)
        /\ error = NoError

C11_Witness ==
    /\ call = "get_report" /\ pc = "returned"
    /\ attempts = <<Unavailable, BadRequest, OK>>
    /\ sleeps = 2 /\ Len(result) >= 1

\* C12 (as stated): a logical request of get_report or of a page of
\* get_report_batch that has failed after max_retries + 1 attempts answered
\* with failure statuses has slept exactly max_retries times.
C12_SleepsOnlyBeforeRetry ==
    (InRevenueReport /\ pc = "failed" /\ AllFailureStatuses)
        => sleeps = max_retries

\* C13 (as stated): creating the iteration issues no request, and after j
\* pulls no request at an offset >= j * page size has been issued.
C13_NoRequestBeyondPulledPages ==
    InBatch =>
        /\ pulls = 0 => reqLog = <<>>
        /\ \A j \in 1..Len(reqLog) : reqLog[j][1] < pulls * batch_size

\* C13 (amended): creating the iteration issues no request; after j pulls
\* every request issued has an offset of at most (j - 1) * page size, which is
\* below j * page size for a page size >= 1; the generator runs only inside a
\* pull (j - 1 pages yielded while it runs, j once it is suspended at a
\* yield), so a consumer that stops pulling causes no further request.
C13_RequestsOnlyForPulledPages ==
    InBatch =>
        /\ pulls = 0 => (reqLog = <<>> /\ pages = <<>> /\ pc = "created")
        /\ \A j \in 1..Len(reqLog) :
              /\ reqLog[j][1] <= (pulls - 1) * batch_size
              /\ batch_size >= 1 => reqLog[j][1] < pulls * batch_size
        /\ pc \in {"request", "sleep", "check"} => Len(pages) = pulls - 1
        /\ pc = "yielded" => Len(pages) = pulls

C13_Witness ==
    /\ InBatch /\ pc = "yielded" /\ has_next_batch
    /\ pulls = 2 /\ batch_size = 2
    /\ reqLog = << <<0, 2>>, <<2, 2>> >>

\* C14 (as stated): with a service that always answers 200 with the slice
\* asked for, the iteration ends after finitely many page requests for every
\* page size >= 0. Every page that does not end the iteration has to take
\* at least one row off what remains of the data rows, so a drain makes no
\* more than data + 1 requests.
C14_FinitelyManyRequests ==
    (InBatch /\ allOK /\ honest) => Len(reqLog) <= data + 1

\* C16 (as stated): the iteration ends after a page only if that page has
\* strictly fewer rows than the page size.
C16_EndsOnlyAfterShortPage ==
    (InBatch /\ pc \in {"yielded", "done"} /\ ~has_next_batch)
        => Len(pages[Len(pages)]) < batch_size

\* C17: every page has its own retry budget: the loop index starts at 0 for
\* each page whatever earlier pages consumed, a page is given up only after
\* max_retries + 1 attempts, never more are made, and all HTTP calls of a
\* page carry that page's offset and the page size.
C17_RetryBudgetPerPage ==
    (InBatch /\ pc \in {"request", "sleep", "check", "failed"}) =>
        /\ Len(attempts) <= max_retries + 1
        /\ Len(attempts) <= Len(reqLog)
        /\ pc = "request" => (i = Len(attempts) /\ i <= max_retries)
        /\ pc = "sleep" => i = Len(attempts) - 1
        /\ (pc = "failed" /\ error.kind = "Exception")
              => Len(attempts) = max_retries + 1
        /\ \A j \in 1..Len(attempts) :
              reqLog[Len(reqLog) - Len(attempts) + j]
                  = <<Len(pages) * batch_size, batch_size>>

C17_Witness ==
    /\ InBatch /\ pc = "failed" /\ error.kind = "Exception"
    /\ max_retries = 2 /\ batch_size = 1
    /\ Len(pages) = 1 /\ Len(attempts) = 3
    /\ reqLog = << <<0, 1>>, <<0, 1>>, <<0, 1>>, <<1, 1>>, <<1, 1>>, <<1, 1>> >>

\* C18: once the iteration has ended, by the end of its loop or by raising,
\* a further pull changes nothing but the pull count: no page, no HTTP call,
\* the same end state; and each yield appends one table whose rows all come
\* after the rows yielded before, so no page is yielded twice.
C18_SinglePass ==
    [][ /\ (InBatch /\ pc \in {"done", "failed"})
           => (pc' = pc /\ pages' = pages /\ reqLog' = reqLog
               /\ error' = error /\ offset' = offset)
        /\ (InBatch /\ pages' # pages)
           => (/\ Len(pages') = Len(pages) + 1
               /\ SubSeq(pages', 1, Len(pages)) = pages
               /\ \A a \in 1..Len(pages) : \A b \in 1..Len(pages[a]) :
                    \A c \in 1..Len(pages'[Len(pages')]) :
                       pages[a][b] < pages'[Len(pages')][c]) ]_vars

C18_Witness ==
    /\ InBatch /\ pc = "failed" /\ error.kind = "Exception"
    /\ Len(pages) = 1 /\ Len(pages[1]) = 2
    /\ pulls >= 4

\* C20 (as stated): whatever status_retries holds, a 404 answered to the
\* first HTTP call is the only call made and the request does not fail.
C20_NotFoundNeverRetried ==
    (InUser /\ attempts # <<>> /\ attempts[1] = NotFound) =>
        /\ Len(attempts) = 1
        /\ sleeps = 0
        /\ pc \in {"handle", "returned"}

\* C20 (amended): for every status_retries that does not hold 404 (the
\* default does not) and every max_retries, a 404 answered to the first HTTP
\* call is the only call made, no delay is taken, and the call returns the
\* empty table.
C20_NotFoundNotRetriedUnlessListed ==
    (InUser /\ attempts # <<>> /\ attempts[1] = NotFound
       /\ NotFound \notin status_retries) =>
        /\ Len(attempts) = 1
        /\ sleeps = 0
        /\ retriesLeft = max_retries
        /\ pc \in {"handle", "returned"}
        /\ pc = "returned" => (result = <<>> /\ error = NoError)

C20_Witness ==
    /\ InUser /\ pc = "returned" /\ attempts = <<NotFound>>
    /\ NotFound \notin status_retries /\ max_retries = 3
    /\ result = <<>>

\* C15 (as stated): in every request sent, the api key is the instance's and
\* the dates are the call's, whatever the extra filters hold, and every other
\* key of the extra filters is sent with the extra filter's value.
C15_IdentityParamsKept ==
    params # EmptyDict =>
        /\ params["api_key"] = api_key
        /\ InRevenueReport =>
              (params["start"] = StartDate /\ params["end"] = EndDate)
        /\ InUser => params["date"] = UserDate
        /\ \A k \in (DOMAIN kwargs) \ {"api_key", "start", "end", "date"} :
              params[k] = kwargs[k]

\* the part of C15 the code keeps: every key of the extra filters is sent
\* with the extra filter's value
ExtraFiltersTakePrecedence ==
    params # EmptyDict => \A k \in DOMAIN kwargs : params[k] = kwargs[k]

\* the offsets requested by s never go back
NonDecreasing(s) ==
    \A a \in 1..Len(s) : \A b \in a..Len(s) : s[a][1] <= s[b][1]

\* C19: two iterations of one instance, pulled in any interleaving, each
\* behave as an iteration drained alone over the same answers (C5): its pages
\* are the slices of its own page size in order, its requests are those of
\* its own pages in order (a page is asked again only on a retry), a drained
\* one has asked exactly the offsets 0, p, ..., floor(n/p) * p; every request
\* carries the instance's api key, which is never written.
C19_IterationsIndependent ==
    call = "two_iterations" =>
        /\ api_key = InstanceKey
        /\ \A g \in 1..2 :
             LET it == iters[g] IN
               /\ \A j \in 1..Len(it.pages) :
                     it.pages[j] = Slice((j - 1) * it.batch_size, it.batch_size)
               /\ \A j \in 1..Len(it.reqs) :
                     \E k \in 0..Len(it.pages) :
                        it.reqs[j] = <<k * it.batch_size, it.batch_size>>
               /\ NonDecreasing(it.reqs)
               /\ it.reqs # <<>> => it.keySent = InstanceKey
               /\ it.pc \in {"request", "sleep", "check"}
                     => it.offset = Len(it.pages) * it.batch_size
               /\ it.pc = "done" =>
                     /\ Len(it.pages) = (data \div it.batch_size) + 1
                     /\ {it.reqs[j] : j \in 1..Len(it.reqs)}
                          = {ExpectedRequests(data, it.batch_size)[j] :
                               j \in 1..((data \div it.batch_size) + 1)}

C19_Witness ==
    /\ call = "two_iterations"
    /\ iters[1].batch_size = 1 /\ iters[2].batch_size = 2
    /\ iters[1].pc = "yielded" /\ Len(iters[1].pages) = 2
    /\ iters[2].pc = "sleep" /\ Len(iters[2].pages) = 1

Spec == Init /\ [][Next]_vars

\* the calls made with extra filters
SpecParams == InitParams /\ [][Next]_vars

\* two iterations of one instance, pulled in any interleaving
SpecTwo == InitTwo /\ [][NextTwo]_vars
====
